---- MODULE Spec2Model ----
(***************************************************************************)
(* A model of the ttl_cache crate (src/src/lib.rs): TtlCache, a            *)
(* LinkedHashMap of InternalEntry records, its lookup / mutation API, the  *)
(* passive sweep, the entry views and the iterators.                       *)
(*                                                                         *)
(* Time.  Instant::now() is the variable `now`, a monotonic clock that the *)
(* action Tick advances.  One call of the API reads one instant: the clock *)
(* does not advance inside a call, only between calls (also between the    *)
(* calls on an entry view or on an iterator).                              *)
(*                                                                         *)
(* The map.  linked_hash_map::LinkedHashMap is the crate's one dependency; *)
(* it is modelled as a sequence of nodes without duplicate keys, oldest    *)
(* first, with the operations lib.rs calls on it (the lhm_ operators).     *)
(*                                                                         *)
(* References.  A returned &V / &mut V is modelled by the value it points  *)
(* to at the moment of the return; writes of the caller through a &mut V   *)
(* are not modelled.                                                       *)
(*                                                                         *)
(* Borrows.  entry(), iter() and iter_mut() take &mut self and hand out a  *)
(* value that keeps the borrow: while an Entry or an iterator is alive     *)
(* only its own methods run (and the clock).                               *)
(*                                                                         *)
(* Specifications.  Spec is the whole API of the build without the feature *)
(* "stats"; SpecStats is the build with it; SpecOrder and SpecBack explore *)
(* the calls that decide the order of the records and the traversals over  *)
(* more keys.                                                              *)
(***************************************************************************)
EXTENDS Integers, Sequences, FiniteSets, TLC

\* ------------------------------------------------------------------ bounds
MaxKey == 2
MaxTime == 2
MaxTtl == 1
MaxCount == 2

\* the keys: of the calls of Spec and SpecStats, of SpecOrder, of SpecBack
Keys == 1..MaxKey
OrderKeys == 1..(MaxKey + 1)
BackKeys == 1..(MaxKey + 2)
AllKeys == BackKeys

Values == {"a", "b"}

\* a zero ttl (the record is live at the instant of its insertion only)
\* and a long one
Ttls == {0, MaxTtl}

VARIABLES
    map,      \* TtlCache.map: the nodes, oldest first
    stats,    \* whether the crate is built with the feature "stats"
    hits,     \* TtlCache.hits
    misses,   \* TtlCache.misses
    since,    \* TtlCache.since
    now,      \* Instant::now()
    view,     \* the Entry handed out by entry(), borrowing the cache
    cursor,   \* the Iter / IterMut handed out, borrowing the cache
    last,     \* the last call and what it returned
    calls,    \* in a build with "stats": how many of the counting calls
              \* since the last reset met a live record, and how many
              \* did not
    ghost     \* per key, what the calls so far promise of it: the value,
              \* ttl and instant of its last insertion, the deadline that
              \* insertion or the last renewal since set, and whether it
              \* was renewed

vars == <<map, stats, hits, misses, since, now, view, cursor, last, calls, ghost>>

\* ------------------------------------------------------------ Option<..>
None == [some |-> FALSE, key |-> 0, val |-> "-"]
Some(v) == [some |-> TRUE, key |-> 0, val |-> v]
SomeKV(k, v) == [some |-> TRUE, key |-> k, val |-> v]

\* --------------------------------------------------------- InternalEntry
\* (mutant) the duration is kept but not added to the instant of creation
InternalEntry_new_no_ttl(v, duration, t) ==
    [value |-> v, expiration |-> t, duration |-> duration]

InternalEntry_new(v, duration, t) ==
    [value |-> v, expiration |-> t + duration, duration |-> duration]

\* (mutant) the record counts as expired at its deadline already
is_expired_at_deadline(e, t) == t >= e.expiration

is_expired(e, t) == t > e.expiration

\* (mutant) the duration is added to the old deadline
reset_duration_from_deadline(e, t) ==
    [e EXCEPT !.expiration = e.expiration + e.duration]

reset_duration(e, t) == [e EXCEPT !.expiration = t + e.duration]

\* --------------------------------------------------------- LinkedHashMap
Node(k, e) == [key |-> k, entry |-> e]

lhm_index(m, k) ==
    IF \E i \in DOMAIN m : m[i].key = k
    THEN CHOOSE i \in DOMAIN m : m[i].key = k
    ELSE 0

lhm_contains(m, k) == lhm_index(m, k) # 0

\* LinkedHashMap::get / get_mut, where the key is present
lhm_get(m, k) == m[lhm_index(m, k)].entry

\* LinkedHashMap::remove
lhm_remove(m, k) == SelectSeq(m, LAMBDA n : n.key # k)

\* a write through the &mut InternalEntry that get_mut returns
lhm_set(m, k, e) == [m EXCEPT ![lhm_index(m, k)] = Node(k, e)]

\* (mutant) a present key keeps its place
lhm_insert_in_place(m, k, e) ==
    IF lhm_contains(m, k) THEN lhm_set(m, k, e) ELSE Append(m, Node(k, e))

\* LinkedHashMap::insert: a present key is detached and attached again at
\* the newest end, an absent one is attached there
lhm_insert(m, k, e) == Append(lhm_remove(m, k), Node(k, e))

lhm_front(m) == Head(m)

lhm_pop_front(m) == Tail(m)

\* ------------------------------------------------------- the passive sweep
\* (mutant) every expired record is removed, wherever it sits
RemoveExpired_everywhere(m, t) ==
    SelectSeq(m, LAMBDA n : ~is_expired(n.entry, t))

RECURSIVE RemoveExpired(_, _)
RemoveExpired(m, t) ==
    IF m # <<>> /\ is_expired(lhm_front(m).entry, t)
    THEN RemoveExpired(lhm_pop_front(m), t)
    ELSE m

\* ------------------------------------------------------------ borrowing
NoView == [kind |-> "none", key |-> 0]
NoIter == [kind |-> "none", head |-> 0, tail |-> 0]

\* no Entry and no Iter borrows the cache
Free == view = NoView /\ cursor = NoIter

\* ----------------------------------------------------------------- stats
Count(hit) ==
    IF stats
    THEN /\ hits' = IF hit THEN hits + 1 ELSE hits
         /\ misses' = IF hit THEN misses ELSE misses + 1
    ELSE UNCHANGED <<hits, misses>>

\* the model's cap on the two counters
CountRoom == ~stats \/ (hits < MaxCount /\ misses < MaxCount)

\* ----------------------------------------------------------------- ghost
NoGhost ==
    [set |-> FALSE, val |-> "-", ttl |-> 0, born |-> 0, deadline |-> 0,
     renewed |-> FALSE]

\* k is inserted with value v and ttl d at the instant t
Inserted(g, k, v, d, t) ==
    [g EXCEPT ![k] = [set |-> TRUE, val |-> v, ttl |-> d, born |-> t,
                      deadline |-> t + d, renewed |-> FALSE]]

\* k is renewed at the instant t: a record that is live then lives for its
\* ttl from t on, any other is left as it is
Renewed(g, k, t) ==
    IF g[k].set /\ t <= g[k].deadline
    THEN [g EXCEPT ![k].deadline = t + g[k].ttl, ![k].renewed = TRUE]
    ELSE g

\* k is removed
Removed(g, k) == [g EXCEPT ![k] = NoGhost]

\* ------------------------------------------------- what a call observes
NoCalls == [live |-> 0, dead |-> 0]

\* Read off the records as they are stored, not through the cache's code.
Stored(m, k) == \E i \in DOMAIN m : m[i].key = k

Pos(m, k) == CHOOSE i \in DOMAIN m : m[i].key = k

Rec(m, k) == m[Pos(m, k)].entry

LiveAt(e, t) == t <= e.expiration

\* what the store holds for k at the instant t: nothing, a live record, an
\* expired record in the run of expired records at the oldest end ("swept"),
\* or an expired record behind a live older one ("stale")
Had(m, k, t) ==
    IF ~Stored(m, k) THEN "absent"
    ELSE IF LiveAt(Rec(m, k), t) THEN "live"
    ELSE IF \A i \in 1..Pos(m, k) : ~LiveAt(m[i].entry, t) THEN "swept"
    ELSE "stale"

\* a counting call on k is tallied
Tally(k) ==
    calls' = IF ~stats THEN calls
             ELSE IF Had(map, k, now) = "live"
                  THEN [calls EXCEPT !.live = @ + 1]
                  ELSE [calls EXCEPT !.dead = @ + 1]

\* the record of a call: its name, its key (0: none), what the store held
\* for that key when the call began, and what the call returned
Call(op, k, ret) ==
    [op |-> op, k |-> k,
     had |-> IF k = 0 THEN "-" ELSE Had(map, k, now),
     ret |-> ret]

\* what get / get_mut evaluate to: the value of a stored, unexpired record
get_ret(m, k, t) ==
    IF lhm_contains(m, k) /\ ~is_expired(lhm_get(m, k), t)
    THEN Some(lhm_get(m, k).value)
    ELSE None

\* ------------------------------------------------------------------ Init
InitWith(st) ==
    /\ map = <<>>
    /\ stats = st
    /\ hits = 0
    /\ misses = 0
    /\ since = 0
    /\ now = 0
    /\ view = NoView
    /\ cursor = NoIter
    /\ last = Call("new", 0, None)
    /\ calls = NoCalls
    /\ ghost = [k \in AllKeys |-> NoGhost]

Init == InitWith(FALSE)

InitStats == InitWith(TRUE)

\* ------------------------------------------------------------- the clock
Tick ==
    /\ now < MaxTime
    /\ now' = now + 1
    /\ UNCHANGED <<map, stats, hits, misses, since, view, cursor, last, ghost, calls>>

\* ------------------------------------------------- lookup / mutation API
get(k) ==
    /\ Free /\ CountRoom
    /\ LET to_ret == get_ret(map, k, now)
       IN /\ Count(to_ret.some)
          /\ last' = Call("get", k, to_ret)
    /\ Tally(k)
    /\ UNCHANGED <<map, stats, since, now, view, cursor, ghost>>

\* (mutant) a lookup of its own that counts nothing
contains_key_uncounted(k) ==
    /\ Free /\ CountRoom
    /\ last' = Call("contains_key", k,
                    [None EXCEPT !.some = get_ret(map, k, now).some])
    /\ Tally(k)
    /\ UNCHANGED <<map, stats, hits, misses, since, now, view, cursor, ghost>>

contains_key(k) ==
    /\ Free /\ CountRoom
    /\ LET to_ret == get_ret(map, k, now)
       IN /\ Count(to_ret.some)
          /\ last' = Call("contains_key", k, [None EXCEPT !.some = to_ret.some])
    /\ Tally(k)
    /\ UNCHANGED <<map, stats, since, now, view, cursor, ghost>>

\* (mutant) the lookup extends the deadline of the record it finds
get_mut_extending(k) ==
    /\ Free /\ CountRoom
    /\ LET hit == lhm_contains(map, k) /\ ~is_expired(lhm_get(map, k), now)
           to_ret == get_ret(map, k, now)
       IN /\ map' = IF hit
                    THEN lhm_set(map, k, reset_duration(lhm_get(map, k), now))
                    ELSE map
          /\ Count(to_ret.some)
          /\ last' = Call("get_mut", k, to_ret)
    /\ Tally(k)
    /\ UNCHANGED <<stats, since, now, view, cursor, ghost>>

get_mut(k) ==
    /\ Free /\ CountRoom
    /\ LET to_ret == get_ret(map, k, now)
       IN /\ Count(to_ret.some)
          /\ last' = Call("get_mut", k, to_ret)
    /\ Tally(k)
    /\ UNCHANGED <<map, stats, since, now, view, cursor, ghost>>

\* (mutant) the deadline of the record is renewed before its expiration
\* is looked at
get_mut_prolong_reviving(k) ==
    /\ Free /\ CountRoom
    /\ LET renewed == IF lhm_contains(map, k)
                      THEN lhm_set(map, k, reset_duration(lhm_get(map, k), now))
                      ELSE map
           to_ret == get_ret(renewed, k, now)
       IN /\ map' = renewed
          /\ Count(to_ret.some)
          /\ last' = Call("get_mut_prolong", k, to_ret)
          /\ ghost' = Renewed(ghost, k, now)
    /\ Tally(k)
    /\ UNCHANGED <<stats, since, now, view, cursor>>

get_mut_prolong(k) ==
    /\ Free /\ CountRoom
    /\ LET hit == lhm_contains(map, k) /\ ~is_expired(lhm_get(map, k), now)
           to_ret == IF hit THEN Some(lhm_get(map, k).value) ELSE None
       IN /\ map' = IF hit
                    THEN lhm_set(map, k, reset_duration(lhm_get(map, k), now))
                    ELSE map
          /\ Count(to_ret.some)
          /\ last' = Call("get_mut_prolong", k, to_ret)
          /\ ghost' = Renewed(ghost, k, now)
    /\ Tally(k)
    /\ UNCHANGED <<stats, since, now, view, cursor>>

\* (mutant) the deadline of a stored record is moved whether or not the
\* record has expired
reset_ttl_unchecked(k) ==
    /\ Free
    /\ map' = IF lhm_contains(map, k)
              THEN lhm_set(map, k, reset_duration(lhm_get(map, k), now))
              ELSE map
    /\ ghost' = Renewed(ghost, k, now)
    /\ last' = Call("reset_ttl", k, None)
    /\ UNCHANGED <<stats, hits, misses, since, now, view, cursor, calls>>

reset_ttl(k) ==
    /\ Free
    /\ LET hit == lhm_contains(map, k) /\ ~is_expired(lhm_get(map, k), now)
       IN /\ map' = IF hit
                    THEN lhm_set(map, k, reset_duration(lhm_get(map, k), now))
                    ELSE map
          /\ ghost' = Renewed(ghost, k, now)
    /\ last' = Call("reset_ttl", k, None)
    /\ UNCHANGED <<stats, hits, misses, since, now, view, cursor, calls>>

\* (mutant) the previous value is returned whether or not it had expired
insert_ret_unchecked(old_val, t) ==
    IF old_val.some THEN Some(old_val.x.value) ELSE None

\* old_val.and_then(|x| if x.is_expired() { None } else { Some(x.value) })
insert_ret(old_val, t) ==
    IF old_val.some /\ ~is_expired(old_val.x, t)
    THEN Some(old_val.x.value)
    ELSE None

\* (mutant) the record of a stored key is overwritten where it sits
insert_in_place(k, v, ttl) ==
    /\ Free
    /\ LET swept == RemoveExpired(map, now)
           to_insert == InternalEntry_new(v, ttl, now)
           old_val == IF lhm_contains(swept, k)
                      THEN [some |-> TRUE, x |-> lhm_get(swept, k)]
                      ELSE [some |-> FALSE, x |-> to_insert]
       IN /\ map' = lhm_insert_in_place(swept, k, to_insert)
          /\ last' = Call("insert", k, insert_ret(old_val, now))
    /\ ghost' = Inserted(ghost, k, v, ttl, now)
    /\ UNCHANGED <<stats, hits, misses, since, now, view, cursor, calls>>

\* (mutant) the store holds two records at most: an insertion under a new
\* key into a full store drops the oldest record
insert_capped(k, v, ttl) ==
    /\ Free
    /\ LET swept == RemoveExpired(map, now)
           room == IF ~lhm_contains(swept, k) /\ Len(swept) >= 2
                   THEN lhm_pop_front(swept)
                   ELSE swept
           to_insert == InternalEntry_new(v, ttl, now)
           old_val == IF lhm_contains(room, k)
                      THEN [some |-> TRUE, x |-> lhm_get(room, k)]
                      ELSE [some |-> FALSE, x |-> to_insert]
       IN /\ map' = lhm_insert(room, k, to_insert)
          /\ last' = Call("insert", k, insert_ret(old_val, now))
    /\ ghost' = Inserted(ghost, k, v, ttl, now)
    /\ UNCHANGED <<stats, hits, misses, since, now, view, cursor, calls>>

insert(k, v, ttl) ==
    /\ Free
    /\ LET swept == RemoveExpired(map, now)
           to_insert == InternalEntry_new(v, ttl, now)
           old_val == IF lhm_contains(swept, k)
                      THEN [some |-> TRUE, x |-> lhm_get(swept, k)]
                      ELSE [some |-> FALSE, x |-> to_insert]
       IN /\ map' = lhm_insert(swept, k, to_insert)
          /\ last' = Call("insert", k, insert_ret(old_val, now))
    /\ ghost' = Inserted(ghost, k, v, ttl, now)
    /\ UNCHANGED <<stats, hits, misses, since, now, view, cursor, calls>>

\* (mutant) only a record that is still live is removed
remove_live_only(k) ==
    /\ Free
    /\ map' = IF lhm_contains(map, k) /\ ~is_expired(lhm_get(map, k), now)
              THEN lhm_remove(map, k)
              ELSE map
    /\ last' = Call("remove", k,
                    IF lhm_contains(map, k) /\ ~is_expired(lhm_get(map, k), now)
                    THEN Some(lhm_get(map, k).value)
                    ELSE None)
    /\ ghost' = Removed(ghost, k)
    /\ UNCHANGED <<stats, hits, misses, since, now, view, cursor, calls>>

remove(k) ==
    /\ Free
    /\ map' = lhm_remove(map, k)
    /\ last' = Call("remove", k,
                    IF lhm_contains(map, k) /\ ~is_expired(lhm_get(map, k), now)
                    THEN Some(lhm_get(map, k).value)
                    ELSE None)
    /\ ghost' = Removed(ghost, k)
    /\ UNCHANGED <<stats, hits, misses, since, now, view, cursor, calls>>

clear ==
    /\ Free
    /\ map' = <<>>
    /\ last' = Call("clear", 0, None)
    /\ ghost' = [k \in AllKeys |-> NoGhost]
    /\ UNCHANGED <<stats, hits, misses, since, now, view, cursor, calls>>

remove_expired ==
    /\ Free
    /\ map' = RemoveExpired(map, now)
    /\ last' = Call("remove_expired", IF map = <<>> THEN 0 ELSE lhm_front(map).key, None)
    /\ UNCHANGED <<stats, hits, misses, since, now, view, cursor, ghost, calls>>

\* ------------------------------------------------------------ entry views
\* (mutant) an expired record is left where it is
entry_keep_expired(k) ==
    /\ Free
    /\ view' = [kind |-> IF lhm_contains(map, k) THEN "Occupied" ELSE "Vacant",
                key |-> k]
    /\ last' = Call("entry", k, None)
    /\ UNCHANGED <<map, stats, hits, misses, since, now, cursor, ghost, calls>>

entry(k) ==
    /\ Free
    /\ LET should_remove == IF lhm_contains(map, k)
                            THEN is_expired(lhm_get(map, k), now)
                            ELSE FALSE
           m == IF should_remove THEN lhm_remove(map, k) ELSE map
       IN /\ map' = m
          /\ view' = [kind |-> IF lhm_contains(m, k) THEN "Occupied" ELSE "Vacant",
                      key |-> k]
    /\ last' = Call("entry", k, None)
    /\ UNCHANGED <<stats, hits, misses, since, now, cursor, ghost, calls>>

OccupiedEntry_get ==
    /\ view.kind = "Occupied"
    /\ last' = Call("OccupiedEntry_get", view.key, Some(lhm_get(map, view.key).value))
    /\ UNCHANGED <<map, stats, hits, misses, since, now, view, cursor, ghost, calls>>

OccupiedEntry_get_mut ==
    /\ view.kind = "Occupied"
    /\ last' = Call("OccupiedEntry_get_mut", view.key, Some(lhm_get(map, view.key).value))
    /\ UNCHANGED <<map, stats, hits, misses, since, now, view, cursor, ghost, calls>>

\* (mutant) the record is overwritten where it sits
OccupiedEntry_insert_in_place(v, ttl) ==
    /\ view.kind = "Occupied"
    /\ map' = lhm_set(map, view.key, InternalEntry_new(v, ttl, now))
    /\ last' = Call("OccupiedEntry_insert", view.key, Some(lhm_get(map, view.key).value))
    /\ ghost' = Inserted(ghost, view.key, v, ttl, now)
    /\ UNCHANGED <<stats, hits, misses, since, now, view, cursor, calls>>

\* linked_hash_map's OccupiedEntry::insert replaces the value of the node and
\* attaches the node again at the newest end, as LinkedHashMap::insert does
OccupiedEntry_insert(v, ttl) ==
    /\ view.kind = "Occupied"
    /\ map' = lhm_insert(map, view.key, InternalEntry_new(v, ttl, now))
    /\ last' = Call("OccupiedEntry_insert", view.key, Some(lhm_get(map, view.key).value))
    /\ ghost' = Inserted(ghost, view.key, v, ttl, now)
    /\ UNCHANGED <<stats, hits, misses, since, now, view, cursor, calls>>

VacantEntry_insert(v, ttl) ==
    /\ view.kind = "Vacant"
    /\ map' = lhm_insert(map, view.key, InternalEntry_new(v, ttl, now))
    /\ view' = NoView
    /\ last' = Call("VacantEntry_insert", view.key, Some(v))
    /\ ghost' = Inserted(ghost, view.key, v, ttl, now)
    /\ UNCHANGED <<stats, hits, misses, since, now, cursor, calls>>

\* the Entry goes out of scope
Entry_drop ==
    /\ view # NoView
    /\ view' = NoView
    /\ UNCHANGED <<map, stats, hits, misses, since, now, cursor, last, ghost, calls>>

\* -------------------------------------------------------------- iterators
iter ==
    /\ Free
    /\ map' = RemoveExpired(map, now)
    /\ cursor' = [kind |-> "Iter", head |-> 1, tail |-> Len(map')]
    /\ last' = Call("iter", 0, None)
    /\ UNCHANGED <<stats, hits, misses, since, now, view, ghost, calls>>

iter_mut ==
    /\ Free
    /\ map' = RemoveExpired(map, now)
    /\ cursor' = [kind |-> "IterMut", head |-> 1, tail |-> Len(map')]
    /\ last' = Call("iter_mut", 0, None)
    /\ UNCHANGED <<stats, hits, misses, since, now, view, ghost, calls>>

\* (mutant) next gives up at the first expired record, as next_back does
next_ret_halting(m, head, tail, t) ==
    IF head > tail
    THEN [ret |-> None, head |-> head]
    ELSE IF is_expired(m[head].entry, t)
         THEN [ret |-> None, head |-> head + 1]
         ELSE [ret |-> SomeKV(m[head].key, m[head].entry.value), head |-> head + 1]

\* Iter::next / IterMut::next on the nodes head..tail that are left: the
\* result and the new head
RECURSIVE next_ret(_, _, _, _)
next_ret(m, head, tail, t) ==
    IF head > tail
    THEN [ret |-> None, head |-> head]
    ELSE IF is_expired(m[head].entry, t)
         THEN next_ret(m, head + 1, tail, t)
         ELSE [ret |-> SomeKV(m[head].key, m[head].entry.value), head |-> head + 1]

\* (mutant) next_back skips expired records as next does
RECURSIVE next_back_ret_skipping(_, _, _, _)
next_back_ret_skipping(m, head, tail, t) ==
    IF head > tail
    THEN [ret |-> None, tail |-> tail]
    ELSE IF is_expired(m[tail].entry, t)
         THEN next_back_ret_skipping(m, head, tail - 1, t)
         ELSE [ret |-> SomeKV(m[tail].key, m[tail].entry.value), tail |-> tail - 1]

\* Iter::next_back / IterMut::next_back: the result and the new tail
next_back_ret(m, head, tail, t) ==
    IF head > tail
    THEN [ret |-> None, tail |-> tail]
    ELSE IF is_expired(m[tail].entry, t)
         THEN [ret |-> None, tail |-> tail - 1]
         ELSE [ret |-> SomeKV(m[tail].key, m[tail].entry.value), tail |-> tail - 1]

\* Iter::size_hint / IterMut::size_hint: the map iterator's remaining count
size_hint(c) == IF c.tail >= c.head THEN c.tail - c.head + 1 ELSE 0

\* iter().collect() with the clock at rest: the sweep, then next() until None
RECURSIVE collect(_, _, _, _)
collect(m, head, tail, t) ==
    LET r == next_ret(m, head, tail, t)
    IN IF r.ret.some THEN <<r.ret>> \o collect(m, r.head, tail, t) ELSE <<>>

Iter_collect(m, t) ==
    LET swept == RemoveExpired(m, t) IN collect(swept, 1, Len(swept), t)

\* (mutant) next removes the expired records it passes over from the store
Iter_next_pruning ==
    /\ cursor.kind = "Iter"
    /\ LET r == next_ret(map, cursor.head, cursor.tail, now)
           passed == {i \in cursor.head..(r.head - 1) : is_expired(map[i].entry, now)}
           n == Cardinality(passed)
       IN /\ map' = SelectSeq(map, LAMBDA x : \A i \in passed : map[i].key # x.key)
          /\ cursor' = [cursor EXCEPT !.head = r.head - n, !.tail = cursor.tail - n]
          /\ last' = Call("next", 0, r.ret)
    /\ UNCHANGED <<stats, hits, misses, since, now, view, ghost, calls>>

Iter_next ==
    /\ cursor.kind = "Iter"
    /\ LET r == next_ret(map, cursor.head, cursor.tail, now)
       IN /\ cursor' = [cursor EXCEPT !.head = r.head]
          /\ last' = Call("next", 0, r.ret)
    /\ UNCHANGED <<map, stats, hits, misses, since, now, view, ghost, calls>>

Iter_next_back ==
    /\ cursor.kind = "Iter"
    /\ LET r == next_back_ret(map, cursor.head, cursor.tail, now)
       IN /\ cursor' = [cursor EXCEPT !.tail = r.tail]
          /\ last' = Call("next_back", 0, r.ret)
    /\ UNCHANGED <<map, stats, hits, misses, since, now, view, ghost, calls>>

IterMut_next ==
    /\ cursor.kind = "IterMut"
    /\ LET r == next_ret(map, cursor.head, cursor.tail, now)
       IN /\ cursor' = [cursor EXCEPT !.head = r.head]
          /\ last' = Call("next", 0, r.ret)
    /\ UNCHANGED <<map, stats, hits, misses, since, now, view, ghost, calls>>

IterMut_next_back ==
    /\ cursor.kind = "IterMut"
    /\ LET r == next_back_ret(map, cursor.head, cursor.tail, now)
       IN /\ cursor' = [cursor EXCEPT !.tail = r.tail]
          /\ last' = Call("next_back", 0, r.ret)
    /\ UNCHANGED <<map, stats, hits, misses, since, now, view, ghost, calls>>

\* the iterator goes out of scope
Iter_drop ==
    /\ cursor # NoIter
    /\ cursor' = NoIter
    /\ UNCHANGED <<map, stats, hits, misses, since, now, view, last, ghost, calls>>

\* ----------------------------------------------------------------- stats
hit_count == hits

miss_count == misses

stats_since == since

reset_stats_counter ==
    /\ Free /\ stats
    /\ hits' = 0
    /\ misses' = 0
    /\ since' = now
    /\ last' = Call("reset_stats_counter", 0, None)
    /\ calls' = NoCalls
    /\ UNCHANGED <<map, stats, now, view, cursor, ghost>>

\* -------------------------------------------------------- specifications
\* The whole API of the build without the feature "stats".
Next ==
    \/ Tick
    \/ \E k \in Keys : get(k)
    \/ \E k \in Keys : contains_key(k)
    \/ \E k \in Keys : get_mut(k)
    \/ \E k \in Keys : get_mut_prolong(k)
    \/ \E k \in Keys : reset_ttl(k)
    \/ \E k \in Keys, v \in Values, ttl \in Ttls : insert(k, v, ttl)
    \/ \E k \in Keys : remove(k)
    \/ clear
    \/ remove_expired
    \/ \E k \in Keys : entry(k)
    \/ OccupiedEntry_get
    \/ OccupiedEntry_get_mut
    \/ \E v \in Values, ttl \in Ttls : OccupiedEntry_insert(v, ttl)
    \/ \E v \in Values, ttl \in Ttls : VacantEntry_insert(v, ttl)
    \/ Entry_drop
    \/ iter
    \/ iter_mut
    \/ Iter_next
    \/ Iter_next_back
    \/ IterMut_next
    \/ IterMut_next_back
    \/ Iter_drop

Spec == Init /\ [][Next]_vars

\* The calls that decide the order of the records, over one more key.
NextOrder ==
    \/ Tick
    \/ \E k \in OrderKeys, v \in Values, ttl \in Ttls : insert(k, v, ttl)
    \/ \E k \in OrderKeys : remove(k)
    \/ remove_expired

SpecOrder == Init /\ [][NextOrder]_vars

\* Insertions and the traversals, over two more keys and one value.
NextBack ==
    \/ Tick
    \/ \E k \in BackKeys, ttl \in Ttls : insert(k, "a", ttl)
    \/ iter
    \/ iter_mut
    \/ Iter_next
    \/ Iter_next_back
    \/ IterMut_next
    \/ IterMut_next_back
    \/ Iter_drop

SpecBack == Init /\ [][NextBack]_vars

\* The build with the feature "stats": the calls that count, the reset, and
\* beside them every other call of the API, over one value.
NextStats ==
    \/ Tick
    \/ \E k \in Keys : get(k)
    \/ \E k \in Keys : contains_key(k)
    \/ \E k \in Keys : get_mut(k)
    \/ \E k \in Keys : get_mut_prolong(k)
    \/ reset_stats_counter
    \/ \E k \in Keys : reset_ttl(k)
    \/ \E k \in Keys, ttl \in Ttls : insert(k, "a", ttl)
    \/ \E k \in Keys : remove(k)
    \/ clear
    \/ remove_expired
    \/ \E k \in Keys : entry(k)
    \/ OccupiedEntry_get
    \/ OccupiedEntry_get_mut
    \/ \E ttl \in Ttls : OccupiedEntry_insert("a", ttl)
    \/ \E ttl \in Ttls : VacantEntry_insert("a", ttl)
    \/ Entry_drop
    \/ iter
    \/ iter_mut
    \/ Iter_drop

SpecStats == InitStats /\ [][NextStats]_vars

C2_InsertReturn ==
    [][\A v \in Values, ttl \in Ttls :
          (last'.op = "insert" /\ insert(last'.k, v, ttl)) =>
              /\ last'.ret = IF Stored(map, last'.k) /\ LiveAt(Rec(map, last'.k), now)
                             THEN Some(Rec(map, last'.k).value)
                             ELSE None
              /\ get_ret(map', last'.k, now') = Some(v)]_vars

\* insert returned None over an expired record that the sweep inside insert
\* could not reach
C2_Witness ==
    /\ last.op = "insert" /\ last.had = "stale" /\ last.ret = None
    /\ get_ret(map, last.k, now).some

\* ==================================================================== C3
KeysOf(m) == [i \in DOMAIN m |-> m[i].key]

LiveNodes(m, t) == SelectSeq(m, LAMBDA n : LiveAt(n.entry, t))

\* C3.  Order-move on reinsert: insert under a key that is stored puts that
\* key at the newest position with the new value; the other records that
\* are still stored are the same records in the same relative order; and
\* forward iteration then yields the live keys in that order, the
\* reinserted key last with the new value.
C3_OrderMoveOnReinsert ==
    [][\A v \in Values, ttl \in Ttls :
          (last'.op = "insert" /\ last'.had # "absent" /\ insert(last'.k, v, ttl)) =>
              LET k == last'.k
                  n == Len(map')
                  out == Iter_collect(map', now')
              IN /\ n > 0
                 /\ map'[n].key = k
                 /\ map'[n].entry.value = v
                 /\ SubSeq(map', 1, n - 1) =
                        SelectSeq(map, LAMBDA x : x.key # k /\ Stored(map', x.key))
                 /\ KeysOf(out) = KeysOf(LiveNodes(map', now'))
                 /\ out[Len(out)] = SomeKV(k, v)]_vars

\* keys 1, 2, 3 are live in the order 1, 3, 2 right after 2 was inserted again
\* with another value
C3_Witness ==
    /\ last.op = "insert" /\ last.k = 2 /\ last.had = "live"
    /\ KeysOf(map) = <<1, 3, 2>>
    /\ KeysOf(Iter_collect(map, now)) = <<1, 3, 2>>
    /\ last.ret.some /\ last.ret.val # map[3].entry.value

\* ==================================================================== C4
\* the deadline a renewal promises: the instant of the renewal plus the ttl
\* of the last insertion
RenewedVisible ==
    \A k \in AllKeys :
        (ghost[k].set /\ ghost[k].renewed) =>
            get_ret(map, k, now) =
                IF now <= ghost[k].deadline THEN Some(ghost[k].val) ELSE None

\* C4.  Renewal: get_mut_prolong(k) on a record that is live at the instant
\* t' of the call returns its value and sets its expiration to t' plus the
\* duration of its last insertion, so that get(k) evaluates to the value up
\* to t' + duration and to None after; on an absent or expired record it
\* returns None and leaves every record as it is.
C4_Renewal ==
    [][/\ (last'.op = "get_mut_prolong" /\ get_mut_prolong(last'.k)) =>
              LET k == last'.k
              IN IF Stored(map, k) /\ LiveAt(Rec(map, k), now)
                 THEN /\ last'.ret = Some(Rec(map, k).value)
                      /\ Stored(map', k)
                      /\ Rec(map', k).expiration = now + ghost[k].ttl
                      /\ Rec(map', k).value = Rec(map, k).value
                 ELSE /\ last'.ret = None
                      /\ map' = map
       /\ RenewedVisible']_vars

\* get returned the value of a renewed record after the deadline of its
\* insertion had passed, beside a record of another duration
C4_Witness ==
    /\ last.op = "get" /\ last.k # 0 /\ last.ret.some
    /\ last.ret = get_ret(map, last.k, now)
    /\ ghost[last.k].renewed
    /\ now > ghost[last.k].born + ghost[last.k].ttl
    /\ \E i \in DOMAIN map : map[i].entry.duration # ghost[last.k].ttl

\* ==================================================================== C5
\* C5.  The passive sweep is prefix-only: remove_expired() removes the
\* longest run of expired records at the oldest end and nothing else; what
\* is left is the rest of the order, unchanged, and it is empty or begins
\* with a live record.
C5_SweepPrefixOnly ==
    [][(last'.op = "remove_expired" /\ remove_expired) =>
          \E n \in 0..Len(map) :
              /\ map' = SubSeq(map, n + 1, Len(map))
              /\ \A i \in 1..n : ~LiveAt(map[i].entry, now)
              /\ n < Len(map) => LiveAt(map[n + 1].entry, now)]_vars

\* the sweep removed the oldest record and stopped at a live one, leaving an
\* expired record behind it
C5_Witness ==
    /\ last.op = "remove_expired" /\ last.had = "swept"
    /\ ~Stored(map, last.k)
    /\ map # <<>> /\ LiveAt(map[1].entry, now)
    /\ \E i \in DOMAIN map : ~LiveAt(map[i].entry, now)

C7_StatsAccounting ==
    stats => (hit_count = calls.live /\ miss_count = calls.dead)

\* after a reset, hits and misses were counted, the last a renewing lookup
\* of an expired record
C7_Witness ==
    /\ stats /\ stats_since > 0
    /\ hit_count > 0 /\ miss_count > 0
    /\ last.op = "get_mut_prolong" /\ last.had \in {"swept", "stale"}

\* ==================================================================== C8
\* C8.  entry(k) classifies by liveness: the view is Occupied exactly when
\* a record of k is stored and unexpired at the call, Vacant otherwise; an
\* expired record of k is removed by entry(k) itself, and no other record or
\* position changes.
C8_EntryByLiveness ==
    [][(last'.op = "entry" /\ entry(last'.k)) =>
          LET k == last'.k
              live == Stored(map, k) /\ LiveAt(Rec(map, k), now)
          IN /\ view' = [kind |-> IF live THEN "Occupied" ELSE "Vacant", key |-> k]
             /\ map' = IF Stored(map, k) /\ ~live
                       THEN SelectSeq(map, LAMBDA n : n.key # k)
                       ELSE map]_vars

\* entry(k) met a stale record of k; the view was dropped unused and the
\* record is gone, the others are still stored
C8_Witness ==
    /\ last.op = "entry" /\ last.had = "stale"
    /\ view = NoView
    /\ ~Stored(map, last.k)
    /\ map # <<>>

\* ==================================================================== C9
\* C9.  Entry-view round trip: insert(v, ttl) on a Vacant view of k creates
\* the record of k at the newest position with expiration now + ttl; from
\* then on get(k) evaluates to v up to that deadline and to None after it.
C9_VacantInsertRoundTrip ==
    last.op = "VacantEntry_insert" =>
        LET k == last.k
            n == Len(map)
            deadline == ghost[k].born + ghost[k].ttl
        IN /\ n > 0
           /\ map[n].key = k
           /\ map[n].entry.expiration = deadline
           /\ last.ret = Some(ghost[k].val)
           /\ get_ret(map, k, now) =
                 IF now <= deadline THEN Some(ghost[k].val) ELSE None

\* at the deadline of a record created through a Vacant view, some time
\* after its creation, get still evaluates to the inserted value
C9_Witness ==
    /\ last.op = "VacantEntry_insert"
    /\ ghost[last.k].ttl > 0
    /\ now = ghost[last.k].born + ghost[last.k].ttl
    /\ get_ret(map, last.k, now) = last.ret
    /\ Len(map) > 1

\* =================================================================== C10
\* C10.  remove(k) deletes the record of k, live or expired, and returns
\* its value only if it was unexpired at the call (None if expired or
\* absent); afterwards k is not stored, get(k) is None, and the other
\* records, their expirations and their order are as before.
C10_Remove ==
    [][(last'.op = "remove" /\ remove(last'.k)) =>
          LET k == last'.k
          IN /\ last'.ret = IF Stored(map, k) /\ LiveAt(Rec(map, k), now)
                            THEN Some(Rec(map, k).value)
                            ELSE None
             /\ map' = SelectSeq(map, LAMBDA n : n.key # k)
             /\ ~Stored(map', k)
             /\ get_ret(map', k, now') = None]_vars

\* remove returned None for a stale record and deleted it, the others stay
C10_Witness ==
    /\ last.op = "remove" /\ last.had = "stale" /\ last.ret = None
    /\ ~Stored(map, last.k)
    /\ map # <<>>

\* =================================================================== C11
\* C11.  reset_ttl(k) on a record that is stored and unexpired at the
\* instant t' of the call sets its expiration to t' plus the duration of its
\* last insertion and leaves its value, its duration, its position and every
\* other record as they were; on an absent or expired record it leaves the
\* whole store as it was.
C11_ResetTtlFrame ==
    [][(last'.op = "reset_ttl" /\ reset_ttl(last'.k)) =>
          LET k == last'.k
          IN IF Stored(map, k) /\ LiveAt(Rec(map, k), now)
             THEN /\ Len(map') = Len(map)
                  /\ \A i \in DOMAIN map :
                        IF i = Pos(map, k)
                        THEN /\ map'[i].key = k
                             /\ map'[i].entry.value = map[i].entry.value
                             /\ map'[i].entry.duration = map[i].entry.duration
                             /\ map'[i].entry.expiration = now + ghost[k].ttl
                        ELSE map'[i] = map[i]
             ELSE map' = map]_vars

\* reset_ttl moved the deadline of a live record that is not the newest,
\* some time after its insertion
C11_Witness ==
    /\ last.op = "reset_ttl" /\ last.had = "live"
    /\ Stored(map, last.k) /\ Pos(map, last.k) < Len(map)
    /\ ghost[last.k].born < now
    /\ Rec(map, last.k).expiration = now + ghost[last.k].ttl
    /\ Rec(map, last.k).expiration > ghost[last.k].born + ghost[last.k].ttl

\* =================================================================== C12
\* C12.  get(k), contains_key(k) and get_mut(k) leave the stored records as
\* they are, whether k is live, expired or absent: no record is removed (an
\* expired one stays stored), no expiration, duration or position changes;
\* each of them reports a value exactly when a record of k is stored and
\* unexpired, so contains_key(k) is true exactly when get(k) is a value.
C12_LookupsLeaveStore ==
    [][(\/ last'.op = "get" /\ get(last'.k)
        \/ last'.op = "contains_key" /\ contains_key(last'.k)
        \/ last'.op = "get_mut" /\ get_mut(last'.k)) =>
          LET k == last'.k
              live == Stored(map, k) /\ LiveAt(Rec(map, k), now)
          IN /\ map' = map
             /\ last'.ret.some <=> live
             /\ last'.ret.some <=> get_ret(map', k, now').some
             /\ last'.op # "contains_key" =>
                    last'.ret = IF live THEN Some(Rec(map, k).value) ELSE None]_vars

\* get_mut returned the value of a live record some time after its
\* insertion and before its deadline, and the record still has the deadline
\* of its insertion; an expired record is still stored beside it
C12_Witness ==
    /\ last.op = "get_mut" /\ last.had = "live" /\ last.ret.some
    /\ Stored(map, last.k)
    /\ ~ghost[last.k].renewed
    /\ ghost[last.k].born < now
    /\ Rec(map, last.k).expiration = ghost[last.k].born + ghost[last.k].ttl
    /\ \E i \in DOMAIN map : ~LiveAt(map[i].entry, now)

\* =================================================================== C13
\* the keys that get returns a value for, and the entries that forward
\* iteration yields, as a set
Gettable(m, t) == {k \in AllKeys : get_ret(m, k, t).some}

Yielded(m, t) == LET out == Iter_collect(m, t) IN {out[i] : i \in DOMAIN out}

\* every key whose last insertion or renewal promises a deadline that has
\* not passed is returned by get and by forward iteration
PromisedVisible ==
    LET yielded == Yielded(map, now)
    IN \A k \in AllKeys :
          (ghost[k].set /\ now <= ghost[k].deadline) =>
              /\ get_ret(map, k, now) = Some(ghost[k].val)
              /\ SomeKV(k, ghost[k].val) \in yielded

ValueCall ==
    \/ /\ last'.op \in {"get", "get_mut", "get_mut_prolong", "insert", "remove"}
       /\ \/ get(last'.k)
          \/ get_mut(last'.k)
          \/ get_mut_prolong(last'.k)
          \/ remove(last'.k)
          \/ \E v \in Values, ttl \in Ttls : insert(last'.k, v, ttl)
    \/ /\ last'.op \in {"next", "next_back"}
       /\ Iter_next \/ Iter_next_back \/ IterMut_next \/ IterMut_next_back
    \/ /\ last'.op \in {"OccupiedEntry_get", "OccupiedEntry_get_mut",
                        "OccupiedEntry_insert"}
       /\ \/ OccupiedEntry_get
          \/ OccupiedEntry_get_mut
          \/ \E v \in Values, ttl \in Ttls : OccupiedEntry_insert(v, ttl)

\* C14.  No call that returns a value returns the value of a record that is
\* expired at the instant of the call: whatever such a call returns is the
\* value of a record that is stored and unexpired when the call begins, also
\* on an Occupied view that was built some time before the call.
C14_NoExpiredValue ==
    [][(ValueCall /\ last'.ret.some) =>
          LET k == IF last'.k # 0 THEN last'.k ELSE last'.ret.key
          IN /\ Stored(map, k)
             /\ LiveAt(Rec(map, k), now)
             /\ last'.ret.val = Rec(map, k).value]_vars

\* =================================================================== C15
\* C15 as stated.  insert(v, ttl) on an Occupied view replaces the record
\* in place: the key keeps the position it had, the record gets the value v
\* and the expiration now + ttl, the old value is returned, and no sweep is
\* run (every other record stays where it is).
C15_ReplaceInPlace ==
    [][\A v \in Values, ttl \in Ttls :
          (last'.op = "OccupiedEntry_insert" /\ OccupiedEntry_insert(v, ttl)) =>
              LET k == last'.k
              IN /\ Len(map') = Len(map)
                 /\ Pos(map', k) = Pos(map, k)
                 /\ Rec(map', k) = [value |-> v, expiration |-> now + ttl,
                                    duration |-> ttl]
                 /\ last'.ret = Some(Rec(map, k).value)
                 /\ \A i \in DOMAIN map : i # Pos(map, k) => map'[i] = map[i]]_vars

\* C15 as amended.  insert(v, ttl) on an Occupied view replaces the record
\* and moves the key to the newest position, as a top-level insert does; the
\* other records keep their relative order; the record gets the value v and
\* the expiration now + ttl, the old value is returned, and no sweep is run
\* (no other record is removed, expired or not).
C15_ReplaceAndMove ==
    [][\A v \in Values, ttl \in Ttls :
          (last'.op = "OccupiedEntry_insert" /\ OccupiedEntry_insert(v, ttl)) =>
              LET k == last'.k
                  n == Len(map')
              IN /\ n = Len(map)
                 /\ map'[n] = Node(k, [value |-> v, expiration |-> now + ttl,
                                       duration |-> ttl])
                 /\ SubSeq(map', 1, n - 1) = SelectSeq(map, LAMBDA x : x.key # k)
                 /\ last'.ret = Some(Rec(map, k).value)]_vars

\* insert on an Occupied view has just put a new record of its key at the
\* newest position, and the expired record of another key is still stored
\* at the oldest end
C15_Witness ==
    /\ last.op = "OccupiedEntry_insert"
    /\ Len(map) = 2 /\ map[2].key = last.k
    /\ ghost[last.k].born = now
    /\ ~LiveAt(map[1].entry, now)
    /\ map[1].entry.expiration > 0

\* =================================================================== C16
\* C16.  Forward iteration.  Each next() of an Iter or IterMut passes over
\* the records that are expired at the instant of the call and yields the
\* oldest record left that is live at that instant, moving past it, or
\* returns None when none is left: so repeated next() yields, oldest first,
\* every record that is live when it is visited, none that is expired then,
\* and each at most once.  With the clock at rest, iter() and next() until
\* None yield exactly the keys that get returns a value for, in the order of
\* the records, also the live ones behind an expired interior record.
C16_ForwardIteration ==
    /\ [][(last'.op = "next" /\ (Iter_next \/ IterMut_next)) =>
            LET h == cursor.head
                t == cursor.tail
                rest == {i \in h..t : LiveAt(map[i].entry, now)}
            IN IF rest = {}
               THEN /\ last'.ret = None
                    /\ cursor'.head > t
               ELSE LET p == CHOOSE i \in rest : \A j \in rest : i <= j
                    IN /\ last'.ret = SomeKV(map[p].key, map[p].entry.value)
                       /\ cursor'.head = p + 1
                       /\ cursor'.tail = t]_vars
    /\ [](KeysOf(Iter_collect(map, now)) = KeysOf(LiveNodes(map, now))
          /\ {e.key : e \in Yielded(map, now)} = Gettable(map, now))

\* next() yielded a live record from behind an expired record that itself
\* sits behind a live one
C16_Witness ==
    /\ last.op = "next" /\ last.ret.some
    /\ cursor # NoIter /\ cursor.head > 3
    /\ map[cursor.head - 1].key = last.ret.key
    /\ LiveAt(map[cursor.head - 1].entry, now)
    /\ \E i, j \in 1..(cursor.head - 2) :
          /\ j < i
          /\ LiveAt(map[j].entry, now)
          /\ ~LiveAt(map[i].entry, now)

\* =================================================================== C17
\* C17.  Backward traversal halts at the first expired entry it meets: once
\* a next_back() of an iterator has returned None, the next next_back() of
\* the same iterator returns None too and yields no entry nearer the front.
C17_BackwardHalts ==
    [][(/\ last.op = "next_back" /\ last.ret = None
        /\ last'.op = "next_back"
        /\ (Iter_next_back \/ IterMut_next_back)) =>
          last'.ret = None]_vars

\* =================================================================== C18
\* C18 as stated.  Iteration prunes expired entries as encountered: a record
\* that next() passes over because it is expired is no longer stored after
\* the call, so that after a forward traversal to the end no record that was
\* expired when visited remains stored.
C18_IterationPrunes ==
    [][(last'.op = "next" /\ (Iter_next \/ IterMut_next)) =>
          \A i \in cursor.head..(cursor'.head - 1) :
              ~LiveAt(map[i].entry, now) => ~Stored(map', map[i].key)]_vars

\* C18 as amended.  Iteration filters expired entries and removes none but
\* those of the sweep: iter() and iter_mut() remove the run of expired
\* records at the oldest end and nothing else, and next() leaves every
\* record stored, also the expired ones it passes over.
C18_IterationFilters ==
    [][/\ (last'.op \in {"iter", "iter_mut"} /\ (iter \/ iter_mut)) =>
             \E n \in 0..Len(map) :
                 /\ map' = SubSeq(map, n + 1, Len(map))
                 /\ \A i \in 1..n : ~LiveAt(map[i].entry, now)
                 /\ n < Len(map) => LiveAt(map[n + 1].entry, now)
       /\ (last'.op = "next" /\ (Iter_next \/ IterMut_next)) =>
             /\ map' = map
             /\ \A i \in cursor.head..(cursor'.head - 1) : Stored(map', map[i].key)]_vars

\* a forward traversal has come to its end, and an expired record that it
\* passed over is still stored behind a live older one
C18_Witness ==
    /\ last.op = "next" /\ last.ret = None
    /\ cursor # NoIter /\ cursor.head > cursor.tail /\ cursor.tail = Len(map)
    /\ Len(map) > 1
    /\ LiveAt(map[1].entry, now)
    /\ \E i \in DOMAIN map : ~LiveAt(map[i].entry, now)

\* =================================================================== C19
\* the stored records were all inserted with one and the same ttl and none
\* of them was renewed since (by get_mut_prolong or reset_ttl): the states
\* of the runs in which every insertion uses one ttl and no renewal is
\* called are among these
Uniform ==
    /\ \A i, j \in DOMAIN map : map[i].entry.duration = map[j].entry.duration
    /\ \A i \in DOMAIN map : ~ghost[map[i].key].renewed

\* the expirations do not decrease from the oldest to the newest position
ExpirationsAscend ==
    \A i, j \in DOMAIN map : i < j => map[i].entry.expiration <= map[j].entry.expiration

\* C19.  Where every insertion (insert, Vacant view insert, Occupied view
\* insert) used one and the same ttl and no record was renewed, the
\* expirations of the stored records are non-decreasing from oldest to
\* newest, so the expired records are a prefix of the order: after
\* remove_expired() no expired record is stored, and an expired record that
\* next_back() meets has only expired records before it.
C19_UniformTtlOrder ==
    /\ [](Uniform => ExpirationsAscend)
    /\ [][(Uniform /\ last'.op = "remove_expired" /\ remove_expired) =>
              \A i \in DOMAIN map' : LiveAt(map'[i].entry, now')]_vars
    /\ [][(/\ Uniform
            /\ last'.op = "next_back"
            /\ (Iter_next_back \/ IterMut_next_back)
            /\ cursor.head <= cursor.tail
            /\ ~LiveAt(map[cursor.tail].entry, now)) =>
              /\ last'.ret = None
              /\ \A i \in 1..cursor.tail : ~LiveAt(map[i].entry, now)]_vars

\* next_back() has met the expired newest of two records that were
\* inserted with one ttl, not zero, and the older record is expired too
C19_Witness ==
    /\ Uniform
    /\ Len(map) = 2
    /\ map[1].entry.duration > 0
    /\ ~LiveAt(map[1].entry, now) /\ ~LiveAt(map[2].entry, now)
    /\ last.op = "next_back" /\ last.ret = None
    /\ cursor # NoIter /\ cursor.tail = 1 /\ cursor.head = 1

\* =================================================================== C20
\* the step is a new insertion for k: insert(k, ..) or insert on a view of k
InsertionFor(k) ==
    /\ last'.op \in {"insert", "VacantEntry_insert", "OccupiedEntry_insert"}
    /\ last'.k = k
    /\ \E v \in Values, ttl \in Ttls :
          \/ insert(k, v, ttl)
          \/ VacantEntry_insert(v, ttl)
          \/ OccupiedEntry_insert(v, ttl)

\* C20.  An expired record is never revived: where get(k) is None (no
\* record of k, or an expired one), every step but a new insertion for k
\* leaves get(k) None, and leaves an expired record of k, if it is still
\* stored, with the deadline it had; so get_mut_prolong(k) and reset_ttl(k)
\* on the expired record move no deadline, and no call on another key and no
\* passing of time makes k visible again.
C20_NeverRevived ==
    [][\A k \in Keys :
          (get_ret(map, k, now) = None /\ ~InsertionFor(k)) =>
              /\ get_ret(map', k, now') = None
              /\ (Stored(map, k) /\ Stored(map', k)) =>
                    Rec(map', k) = Rec(map, k)]_vars

\* get_mut_prolong was called on an expired record behind a live older one:
\* it returned None and the record is stored with the deadline of its
\* insertion, not visible
C20_Witness ==
    /\ last.op = "get_mut_prolong" /\ last.had = "stale" /\ last.ret = None
    /\ Stored(map, last.k)
    /\ Rec(map, last.k).expiration = ghost[last.k].born + ghost[last.k].ttl
    /\ Rec(map, last.k).duration > 0
    /\ now > Rec(map, last.k).expiration
    /\ get_ret(map, last.k, now) = None

\* =================================================================== C21
\* C21.  size_hint is sound: at any point of a traversal the lower bound
\* that size_hint() of the Iter / IterMut reports is not greater than the
\* number of entries that next() yields from there on (here: with the clock
\* at rest, which is the most that next() can yield).
C21_SizeHintSound ==
    cursor # NoIter =>
        size_hint(cursor) <= Len(collect(map, cursor.head, cursor.tail, now))

====
